---- MODULE Spec2Model ----
(***************************************************************************)
(* Model of slack_cloudinary_bridge_package.py: the three tools            *)
(* download_slack_image, upload_to_cloudinary and upload_slack_image, the  *)
(* helper check_env_vars, the process environment they read and the        *)
(* Cloudinary library's process-global configuration they write.           *)
(*                                                                         *)
(* Python values are records [type, val].  A str or bytes value is a       *)
(* sequence of chunks (the empty str/bytes is <<>>), so that concatenation *)
(* is \o and ', '.join is Join.  A dict is a sequence of <<key, value>>    *)
(* pairs.                                                                  *)
(*                                                                         *)
(* @mcp.tool() is taken to hand back the decorated coroutine function, so  *)
(* that upload_slack_image can await the other two.  Each await is a point *)
(* where the event loop may run another invocation; the code between two   *)
(* awaits runs without interruption.                                       *)
(***************************************************************************)
EXTENDS Integers, Sequences, FiniteSets, TLC

\* Number of upload_slack_image invocations the host dispatches.
NumInvocations == 2

Invocations == 1..NumInvocations

--------------------------------------------------------------------------
(* Python values *)

None == [type |-> "NoneType", val |-> <<>>]

Str(s) == [type |-> "str", val |-> s]

Bytes(b) == [type |-> "bytes", val |-> b]

Dict(pairs) == [type |-> "dict", val |-> pairs]

\* Python truthiness of None, str, bytes, dict: `not v` is ~Truthy(v).
Truthy(v) == v.type # "NoneType" /\ v.val # <<>>

\* `key in d` for a dict d.
HasKey(d, key) == \E n \in 1..Len(d.val) : d.val[n][1] = key

\* d[key] for a dict d that has the key.
GetItem(d, key) == d.val[CHOOSE n \in 1..Len(d.val) : d.val[n][1] = key][2]

RECURSIVE Join(_, _)
\* sep.join(names), as chunks.
Join(names, sep) ==
    IF names = <<>> THEN <<>>
    ELSE IF Len(names) = 1 THEN <<names[1]>>
    ELSE <<names[1], sep>> \o Join(Tail(names), sep)

--------------------------------------------------------------------------
(* The environment: os.environ and the two remote services *)

\* The names upload_slack_image hands to check_env_vars, in its order.
RequiredVars ==
    <<"BOT_TOKEN", "CLOUDINARY_API_KEY", "CLOUDINARY_API_SECRET",
      "CLOUDINARY_CLOUD_NAME">>

RequiredSet == {RequiredVars[n] : n \in 1..Len(RequiredVars)}

\* os.environ.get(var): unset (None), set to the empty string, or set.
EnvValues(var) == {None, Str(<<>>), Str(<<"secret-of-", var>>)}

Environments == {e \in [RequiredSet -> UNION {EnvValues(v) : v \in RequiredSet}] :
                    \A v \in RequiredSet : e[v] \in EnvValues(v)}

\* The private URLs the host asks for.  The code never looks into its
\* argument, so one URL per invocation, each its own, covers its use.
SlackUrls == <<"https://files.slack.com/files-pri/T1-F1/a.png",
               "https://files.slack.com/files-pri/T1-F2/b.png",
               "https://files.slack.com/files-pri/T1-F3/c.png",
               "https://files.slack.com/files-pri/T1-F4/d.png">>

\* The slack_url argument of invocation i.
SlackUrlOf(i) == SlackUrls[((i - 1) % Len(SlackUrls)) + 1]

\* Response bodies of the image host for a 2xx status.
Bodies == {<<>>, <<"PNG-header", "PNG-data">>}

\* The responses of the image host: 200 with a body, 304 without one, or
\* 404 with an error page.
Responses ==
    [status : {200}, content : Bodies, exc : {""}]
    \cup {[status |-> 304, content |-> <<>>, exc |-> ""],
          [status |-> 404, content |-> <<"<html>not found</html>">>, exc |-> ""]}

\* Exception classes requests.get may raise; HTTPError is raised by
\* raise_for_status.
TransportExceptions == {"ConnectionError", "MissingSchema", "ValueError",
                        "RuntimeError", "OSError"}

\* requests.RequestException and its subclasses.
IsRequestException(exc) == exc \in {"HTTPError", "ConnectionError", "MissingSchema"}

\* ValueError and its subclasses (MissingSchema derives from both).
IsValueError(exc) == exc \in {"ValueError", "MissingSchema"}

IsRuntimeError(exc) == exc = "RuntimeError"

\* What requests.get(slack_url, headers=headers) does: a response, or an
\* exception (exc # "").
FetchOutcomes ==
    Responses \cup [status : {0}, content : {<<>>}, exc : TransportExceptions]

SecureUrls == {"https://res.cloudinary.com/demo/image/upload/v1/x.png",
               "https://res.cloudinary.com/demo/image/upload/v2/y.png"}

\* The provider's upload result with every field.
FullResult(u) ==
    Dict(<< <<"public_id", Str(<<"x">>)>>,
            <<"url", Str(<<"http://res.cloudinary.com/demo/image/upload/x.png">>)>>,
            <<"secure_url", Str(<<u>>)>> >>)

\* The same without its secure_url.
PartialResult ==
    Dict(<< <<"public_id", Str(<<"x">>)>>,
            <<"url", Str(<<"http://res.cloudinary.com/demo/image/upload/x.png">>)>> >>)

ProviderExceptions == {"cloudinary.exceptions.Error", "ValueError"}

\* What cloudinary.uploader.upload(image_bytes) does: a result, or an
\* exception (exc # "").
PublishOutcomes ==
    [value : {None, Dict(<<>>), PartialResult} \cup {FullResult(u) : u \in SecureUrls},
     exc : {""}]
    \cup [value : {None}, exc : ProviderExceptions]

--------------------------------------------------------------------------
(* check_env_vars *)

\* [var for var in vars if not os.environ.get(var)]
MissingVars(vars, env) == SelectSeq(vars, LAMBDA v : ~Truthy(env[v]))

\* check_env_vars reporting only the first missing name.
check_env_vars_first_only(vars, env) ==
    LET missing == MissingVars(vars, env)
    IN  IF missing # <<>>
        THEN Str(<<"Missing required environment variables: ", missing[1]>>)
        ELSE None

check_env_vars(vars, env) ==
    LET missing == MissingVars(vars, env)
    IN  IF missing # <<>>
        THEN Str(<<"Missing required environment variables: ">> \o Join(missing, ", "))
        ELSE None

--------------------------------------------------------------------------
(* download_slack_image *)

\* response.raise_for_status(): HTTPError for a 4xx or 5xx status.
raise_for_status(status) == IF status >= 400 /\ status < 600 THEN "HTTPError" ELSE ""

\* The exception the try body raises ("" when none): from requests.get, or
\* from raise_for_status.
TryBodyException(outcome) ==
    IF outcome.exc # "" THEN outcome.exc ELSE raise_for_status(outcome.status)

\* download_slack_image returning only the first chunk of the body.
download_slack_image_first_chunk(env, outcome) ==
    LET exc == TryBodyException(outcome)
        headers == <<"Authorization", <<"Bearer ">> \o env["BOT_TOKEN"].val>>
    IN  IF ~Truthy(env["BOT_TOKEN"])
        THEN [ret |-> Bytes(<<>>), raised |-> "", requested |-> FALSE,
              headers |-> <<>>]
        ELSE IF exc = ""
        THEN [ret |-> Bytes(IF outcome.content = <<>> THEN <<>>
                            ELSE <<Head(outcome.content)>>),
              raised |-> "", requested |-> TRUE, headers |-> headers]
        ELSE IF IsRequestException(exc)
        THEN [ret |-> Bytes(<<>>), raised |-> "", requested |-> TRUE,
              headers |-> headers]
        ELSE [ret |-> None, raised |-> exc, requested |-> TRUE,
              headers |-> headers]

\* The whole function, given what the transport does.  ret is the value
\* returned, raised the exception that leaves the function ("" when none),
\* requested whether requests.get was called, headers what it was called
\* with.
download_slack_image(env, outcome) ==
    LET slack_token == env["BOT_TOKEN"]
        headers == <<"Authorization", <<"Bearer ">> \o slack_token.val>>
        exc == TryBodyException(outcome)
    IN  IF ~Truthy(slack_token)
        THEN [ret |-> Bytes(<<>>), raised |-> "", requested |-> FALSE,
              headers |-> <<>>]
        ELSE IF exc = ""
        THEN [ret |-> Bytes(outcome.content), raised |-> "", requested |-> TRUE,
              headers |-> headers]
        ELSE IF IsRequestException(exc)
        THEN [ret |-> Bytes(<<>>), raised |-> "", requested |-> TRUE,
              headers |-> headers]
        ELSE [ret |-> None, raised |-> exc, requested |-> TRUE,
              headers |-> headers]

--------------------------------------------------------------------------
(* upload_to_cloudinary *)

\* The library's global configuration before any cloudinary.config call.
Unconfigured ==
    [cloud_name |-> None, api_key |-> None, api_secret |-> None,
     secure |-> FALSE, writer |-> 0]

\* cloudinary.config applied only while the library is unconfigured.
cloudinary_config_call_once(current, env, i) ==
    IF current.secure
    THEN current
    ELSE [cloud_name |-> env["CLOUDINARY_CLOUD_NAME"],
          api_key |-> env["CLOUDINARY_API_KEY"],
          api_secret |-> env["CLOUDINARY_API_SECRET"],
          secure |-> TRUE, writer |-> i]

\* cloudinary.config(cloud_name=..., api_key=..., api_secret=..., secure=True)
\* called by invocation i: the new global configuration.  writer records the
\* caller.
cloudinary_config_call(current, env, i) ==
    [cloud_name |-> env["CLOUDINARY_CLOUD_NAME"],
     api_key |-> env["CLOUDINARY_API_KEY"],
     api_secret |-> env["CLOUDINARY_API_SECRET"],
     secure |-> TRUE, writer |-> i]

\* upload_to_cloudinary returning the result's url field.
upload_to_cloudinary_url_field(env, image_bytes, outcome) ==
    IF ~(Truthy(env["CLOUDINARY_API_KEY"]) /\ Truthy(env["CLOUDINARY_API_SECRET"])
         /\ Truthy(env["CLOUDINARY_CLOUD_NAME"]))
    THEN [ret |-> Str(<<>>), called |-> FALSE]
    ELSE IF outcome.exc # ""
    THEN [ret |-> Str(<<>>), called |-> TRUE]
    ELSE IF ~Truthy(outcome.value) \/ ~HasKey(outcome.value, "secure_url")
    THEN [ret |-> Str(<<>>), called |-> TRUE]
    ELSE [ret |-> GetItem(outcome.value, "url"), called |-> TRUE]

\* The whole function, given what the provider does.  ret is the value
\* returned (no exception leaves the function), called whether
\* cloudinary.config and cloudinary.uploader.upload were called.
upload_to_cloudinary(env, image_bytes, outcome) ==
    LET api_key == env["CLOUDINARY_API_KEY"]
        api_secret == env["CLOUDINARY_API_SECRET"]
        cloud_name == env["CLOUDINARY_CLOUD_NAME"]
        result == outcome.value
    IN  IF ~(Truthy(api_key) /\ Truthy(api_secret) /\ Truthy(cloud_name))
        THEN [ret |-> Str(<<>>), called |-> FALSE]
        ELSE IF outcome.exc # ""
        THEN [ret |-> Str(<<>>), called |-> TRUE]
        ELSE IF ~Truthy(result) \/ ~HasKey(result, "secure_url")
        THEN [ret |-> Str(<<>>), called |-> TRUE]
        ELSE [ret |-> GetItem(result, "secure_url"), called |-> TRUE]

--------------------------------------------------------------------------
(* upload_slack_image *)

\* str(e) of an exception of class exc.
ExceptionText(exc) == <<"<", exc, ">">>

\* The except clauses of upload_slack_image, for an exception of class exc
\* raised in the try body: the value the function returns.
except_clauses(exc) ==
    IF IsValueError(exc) THEN None
    ELSE IF IsRuntimeError(exc) THEN None
    ELSE Str(<<"An unexpected error occurred: ">> \o ExceptionText(exc))

\* after_download calling download_slack_image again when it returned
\* nothing.
after_download_retry(d) ==
    IF d.raised # ""
    THEN [pc |-> "done", result |-> except_clauses(d.raised)]
    ELSE IF d.ret.val = <<>>
    THEN [pc |-> "download", result |-> None]
    ELSE [pc |-> "upload", result |-> None]

\* After `await download_slack_image(slack_url)` with outcome d: go on to
\* the upload, or return from an except clause.
after_download(d) ==
    IF d.raised # ""
    THEN [pc |-> "done", result |-> except_clauses(d.raised)]
    ELSE [pc |-> "upload", result |-> None]

\* The whole function run on its own, given what the transport and the
\* provider do: the value it returns.
upload_slack_image(env, fetch, publish) ==
    LET env_error == check_env_vars(RequiredVars, env)
        d == download_slack_image(env, fetch)
    IN  IF Truthy(env_error) THEN env_error
        ELSE IF d.raised # "" THEN except_clauses(d.raised)
        ELSE upload_to_cloudinary(env, d.ret, publish).ret

--------------------------------------------------------------------------
(* State *)

VARIABLES
    environ,            \* os.environ, restricted to the four names
    cloudinary_config,  \* the cloudinary library's global configuration
    pc,                 \* per invocation: idle, download, upload, done
    slack_url,          \* per invocation: the argument
    image_bytes,        \* per invocation: the local image_bytes
    result,             \* per invocation: the value returned
    gets,               \* per invocation: the requests.get calls made
    uploads,            \* per invocation: the cloudinary.uploader.upload calls made
    stages              \* per invocation: the order of its effects

vars == <<environ, cloudinary_config, pc, slack_url, image_bytes, result,
          gets, uploads, stages>>

Init ==
    /\ environ \in Environments
    /\ cloudinary_config = Unconfigured
    /\ pc = [i \in Invocations |-> "idle"]
    /\ slack_url = [i \in Invocations |-> ""]
    /\ image_bytes = [i \in Invocations |-> None]
    /\ result = [i \in Invocations |-> None]
    /\ gets = [i \in Invocations |-> <<>>]
    /\ uploads = [i \in Invocations |-> <<>>]
    /\ stages = [i \in Invocations |-> <<>>]

\* Start without the credential check.
Start_without_check(i) ==
    /\ pc[i] = "idle"
    /\ slack_url' = [slack_url EXCEPT ![i] = SlackUrlOf(i)]
    /\ pc' = [pc EXCEPT ![i] = "download"]
    /\ UNCHANGED <<environ, cloudinary_config, image_bytes, result, gets, uploads,
                   stages>>

\* upload_slack_image(url) is called: the credential check, and the return
\* of its message when it has one.
Start(i) ==
    /\ pc[i] = "idle"
    /\ slack_url' = [slack_url EXCEPT ![i] = SlackUrlOf(i)]
    /\ LET env_error == check_env_vars(RequiredVars, environ)
       IN  IF Truthy(env_error)
           THEN /\ pc' = [pc EXCEPT ![i] = "done"]
                /\ result' = [result EXCEPT ![i] = env_error]
                /\ stages' = [stages EXCEPT ![i] = <<"check", "return">>]
           ELSE /\ pc' = [pc EXCEPT ![i] = "download"]
                /\ result' = result
                /\ stages' = [stages EXCEPT ![i] = <<"check">>]
    /\ UNCHANGED <<environ, cloudinary_config, image_bytes, gets, uploads>>

\* await download_slack_image(slack_url), and the except clauses when it
\* raises.
Fetch(i) ==
    /\ pc[i] = "download"
    /\ \E outcome \in FetchOutcomes :
        LET d == download_slack_image(environ, outcome)
            next == after_download(d)
        IN  /\ gets' = [gets EXCEPT ![i] =
                    IF d.requested
                    THEN Append(@, [url |-> slack_url[i], headers |-> d.headers,
                                    response |-> outcome])
                    ELSE @]
            /\ image_bytes' = [image_bytes EXCEPT ![i] = d.ret]
            /\ pc' = [pc EXCEPT ![i] = next.pc]
            /\ result' = [result EXCEPT ![i] = next.result]
            /\ stages' = [stages EXCEPT ![i] =
                    @ \o (IF d.requested THEN <<"GET">> ELSE <<>>)
                      \o (IF next.pc = "done" THEN <<"return">> ELSE <<"fetched">>)]
    /\ UNCHANGED <<environ, cloudinary_config, slack_url, uploads>>

\* await upload_to_cloudinary(image_bytes), and the return of its value.
Publish(i) ==
    /\ pc[i] = "upload"
    /\ \E outcome \in PublishOutcomes :
        LET u == upload_to_cloudinary(environ, image_bytes[i], outcome)
            configured == cloudinary_config_call(cloudinary_config, environ, i)
        IN  /\ cloudinary_config' = IF u.called THEN configured ELSE cloudinary_config
            /\ uploads' = [uploads EXCEPT ![i] =
                    IF u.called
                    THEN Append(@, [payload |-> image_bytes[i], config |-> configured,
                                    response |-> outcome])
                    ELSE @]
            /\ result' = [result EXCEPT ![i] = u.ret]
            /\ pc' = [pc EXCEPT ![i] = "done"]
            /\ stages' = [stages EXCEPT ![i] =
                    @ \o (IF u.called THEN <<"config", "upload">> ELSE <<>>)
                      \o <<"return">>]
    /\ UNCHANGED <<environ, slack_url, image_bytes, gets>>

Next == \E i \in Invocations : Start(i) \/ Fetch(i) \/ Publish(i)

Spec == Init /\ [][Next]_vars

--------------------------------------------------------------------------
(* Vocabulary of the properties *)

\* The required names that are unset or empty in the environment.
MissingSet == {v \in RequiredSet : environ[v] = None \/ environ[v] = Str(<<>>)}

AllPresent == MissingSet = {}

\* The required names a message mentions.
NamesIn(msg) == {msg[n] : n \in 1..Len(msg)} \cap RequiredSet

\* How many chunks of a message are required names.
NameCount(msg) == Cardinality({n \in 1..Len(msg) : msg[n] \in RequiredSet})

\* The position of the first occurrence of event e in sequence s (0: none).
Position(s, e) ==
    IF \E n \in 1..Len(s) : s[n] = e
    THEN CHOOSE n \in 1..Len(s) : s[n] = e /\ \A m \in 1..(n - 1) : s[m] # e
    ELSE 0

Occurrences(s, e) == Cardinality({n \in 1..Len(s) : s[n] = e})

\* A success result: one of the provider's secure URLs.
IsPublicUrl(r) == r \in {Str(<<u>>) : u \in SecureUrls}

\* A failure result a caller can read: a non-empty string that is no URL.
IsDescriptiveFailure(r) == r.type = "str" /\ r.val # <<>> /\ ~IsPublicUrl(r)

\* The GET of invocation i got a response with a success status.
FetchSucceeded(i) ==
    /\ Len(gets[i]) = 1
    /\ gets[i][1].response.exc = ""
    /\ gets[i][1].response.status \in 200..299

\* The GET of invocation i got a response that raise_for_status accepts.
FetchReturnedBody(i) ==
    /\ Len(gets[i]) = 1
    /\ gets[i][1].response.exc = ""
    /\ gets[i][1].response.status \notin 400..599

\* The GET of invocation i got a response with a non-success status.
FetchHttpError(i) ==
    /\ Len(gets[i]) = 1
    /\ gets[i][1].response.exc = ""
    /\ gets[i][1].response.status \notin 200..299

\* What the transport and the provider did for invocation i (a default
\* where the invocation never asked).
FetchOf(i) ==
    IF Len(gets[i]) >= 1 THEN gets[i][1].response
    ELSE [status |-> 0, content |-> <<>>, exc |-> "ConnectionError"]

PublishOf(i) ==
    IF Len(uploads[i]) >= 1 THEN uploads[i][1].response
    ELSE [value |-> None, exc |-> "cloudinary.exceptions.Error"]

--------------------------------------------------------------------------
\* C1: when some required credentials are unset or empty, an invoked
\* upload_slack_image has returned the configuration message naming exactly
\* those credentials, each once, and has made no network call and no
\* provider configuration; when none is, check_env_vars returns None and
\* the invocation goes on to the download.
C1_ConfigurationError ==
    \A i \in Invocations :
        pc[i] # "idle" =>
            IF MissingSet # {}
            THEN /\ pc[i] = "done"
                 /\ result[i].type = "str"
                 /\ Len(result[i].val) >= 2
                 /\ result[i].val[1] = "Missing required environment variables: "
                 /\ NamesIn(result[i].val) = MissingSet
                 /\ NameCount(result[i].val) = Cardinality(MissingSet)
                 /\ gets[i] = <<>>
                 /\ uploads[i] = <<>>
                 /\ stages[i] = <<"check", "return">>
            ELSE /\ check_env_vars(RequiredVars, environ) = None
                 /\ Head(stages[i]) = "check"
                 /\ (pc[i] = "download" \/ Len(gets[i]) = 1)

\* Two credentials are missing (one unset, one empty) and the invocation
\* has returned the message naming both.
C1_Witness ==
    \E i \in Invocations :
        /\ pc[i] = "done"
        /\ environ["BOT_TOKEN"] = None
        /\ environ["CLOUDINARY_API_SECRET"] = Str(<<>>)
        /\ result[i] = Str(<<"Missing required environment variables: ",
                             "BOT_TOKEN", ", ", "CLOUDINARY_API_SECRET">>)

\* C2: with all credentials present, when the GET returns a non-success
\* status, upload_slack_image returns a failure result and
\* upload_to_cloudinary's provider upload is never made.  (The failure is
\* asked only to be a non-empty string that is no URL, which the claim's
\* FetchError implies.)
C2_HttpErrorIsFetchError ==
    \A i \in Invocations :
        (AllPresent /\ FetchHttpError(i)) =>
            /\ uploads[i] = <<>>
            /\ (pc[i] = "done" => IsDescriptiveFailure(result[i]))

\* C3: a finished upload_slack_image has returned the public URL or a
\* descriptive failure string, never None and never an empty value.
C3_AlwaysExplicitResult ==
    \A i \in Invocations :
        pc[i] = "done" => (IsPublicUrl(result[i]) \/ IsDescriptiveFailure(result[i]))

\* C4: with all credentials present and a successful fetch, when the
\* provider's response is None, empty or without secure_url,
\* upload_slack_image returns a failure string that is neither empty nor a
\* URL.
C4_MissingSecureUrlIsPublishError ==
    \A i \in Invocations :
        (/\ AllPresent
         /\ FetchSucceeded(i)
         /\ pc[i] = "done"
         /\ Len(uploads[i]) = 1
         /\ uploads[i][1].response.exc = ""
         /\ ~HasKey(uploads[i][1].response.value, "secure_url"))
        => IsDescriptiveFailure(result[i])

\* C5: with all credentials present, a 2xx GET with a non-empty body and a
\* provider response holding secure_url = U, upload_slack_image returns
\* exactly U.
C5_HappyPath ==
    \A i \in Invocations :
        \A u \in SecureUrls :
            (/\ AllPresent
             /\ pc[i] = "done"
             /\ FetchSucceeded(i)
             /\ gets[i][1].response.content # <<>>
             /\ Len(uploads[i]) = 1
             /\ uploads[i][1].response = [value |-> FullResult(u), exc |-> ""])
            => result[i] = Str(<<u>>)

\* The happy path has run to its end for the first URL of the provider.
C5_Witness ==
    \E i \in Invocations :
        /\ AllPresent
        /\ pc[i] = "done"
        /\ FetchSucceeded(i)
        /\ gets[i][1].response.content = <<"PNG-header", "PNG-data">>
        /\ Len(uploads[i]) = 1
        /\ uploads[i][1].response.exc = ""
        /\ HasKey(uploads[i][1].response.value, "secure_url")
        /\ result[i] = Str(<<"https://res.cloudinary.com/demo/image/upload/v1/x.png">>)

\* C6: the bytes of every provider upload are the bytes download_slack_image
\* returned in that invocation: the body of the GET's response when its
\* status was no error, and the empty bytes otherwise.
C6_PayloadRoundTrip ==
    \A i \in Invocations :
        \A k \in 1..Len(uploads[i]) :
            /\ uploads[i][k].payload = image_bytes[i]
            /\ Len(gets[i]) = 1
            /\ uploads[i][k].payload =
                   IF FetchReturnedBody(i) THEN Bytes(gets[i][1].response.content)
                   ELSE Bytes(<<>>)

\* A two-chunk body was fetched and uploaded.
C6_Witness ==
    \E i \in Invocations :
        /\ Len(uploads[i]) = 1
        /\ FetchSucceeded(i)
        /\ gets[i][1].response.content = <<"PNG-header", "PNG-data">>
        /\ uploads[i][1].payload = Bytes(<<"PNG-header", "PNG-data">>)

\* C7: within an invocation the credential check comes first, every GET,
\* provider configuration and upload comes after it, the configuration and
\* the upload come after the download has returned, and the return is last.
C7_StageOrder ==
    \A i \in Invocations :
        LET s == stages[i]
        IN  /\ \A k \in 1..Len(s) :
                /\ s[k] = "check" => k = 1
                /\ s[k] \in {"GET", "config", "upload"} =>
                       (Position(s, "check") # 0 /\ Position(s, "check") < k)
                /\ s[k] \in {"config", "upload"} =>
                       (Position(s, "fetched") # 0 /\ Position(s, "fetched") < k)
                /\ s[k] = "fetched" =>
                       (Position(s, "GET") # 0 /\ Position(s, "GET") < k)
                /\ s[k] = "return" => (k = Len(s) /\ pc[i] = "done")
            /\ Occurrences(s, "GET") = Len(gets[i])
            /\ Occurrences(s, "upload") = Len(uploads[i])
            /\ (pc[i] = "idle" <=> s = <<>>)

\* An invocation went through every stage.
C7_Witness ==
    \E i \in Invocations :
        stages[i] = <<"check", "GET", "fetched", "config", "upload", "return">>

\* C8: when download_slack_image yields empty bytes, upload_slack_image
\* issues no provider upload and ends with a descriptive failure.
C8_EmptyPayloadIsFetchFailure ==
    \A i \in Invocations :
        (pc[i] \in {"upload", "done"} /\ image_bytes[i] = Bytes(<<>>)) =>
            /\ uploads[i] = <<>>
            /\ (pc[i] = "done" => IsDescriptiveFailure(result[i]))

\* C9: an invocation issues at most one GET and at most one provider
\* upload, and is never at the download again once a GET was made, nor at
\* the upload again once an upload was made.
C9_NoRetry ==
    \A i \in Invocations :
        /\ Len(gets[i]) <= 1
        /\ Len(uploads[i]) <= 1
        /\ (Len(gets[i]) = 1 => pc[i] \in {"upload", "done"})
        /\ (Len(uploads[i]) = 1 => pc[i] = "done")

\* Both stages failed in one invocation, each after a single attempt.
C9_Witness ==
    \E i \in Invocations :
        /\ pc[i] = "done"
        /\ Len(gets[i]) = 1
        /\ FetchHttpError(i)
        /\ Len(uploads[i]) = 1
        /\ uploads[i][1].response.exc # ""
        /\ result[i] = Str(<<>>)

\* C10 as claimed: the invocations share no mutable state but the
\* credentials: no invocation writes process-global state that another
\* invocation reads (here: the provider library's configuration, written by
\* cloudinary.config and read by cloudinary.uploader.upload), and each
\* finished invocation's result is the result it produces alone.
C10_NoSharedMutableState ==
    /\ \A i, j \in Invocations :
           i # j => ~(Position(stages[i], "config") # 0
                      /\ Position(stages[j], "upload") # 0)
    /\ \A i \in Invocations :
           pc[i] = "done" =>
               result[i] = upload_slack_image(environ, FetchOf(i), PublishOf(i))

\* C10 as amended: the invocations share the provider library's global
\* configuration, which each one that reaches the upload overwrites with
\* the credentials; the configuration every upload reads is the one its own
\* invocation wrote, holding the environment's credentials, and each
\* finished invocation's result is the result it produces alone.
C10_IndependentResults ==
    \A i \in Invocations :
        /\ \A k \in 1..Len(uploads[i]) :
               uploads[i][k].config =
                   [cloud_name |-> environ["CLOUDINARY_CLOUD_NAME"],
                    api_key |-> environ["CLOUDINARY_API_KEY"],
                    api_secret |-> environ["CLOUDINARY_API_SECRET"],
                    secure |-> TRUE, writer |-> i]
        /\ pc[i] = "done" =>
               result[i] = upload_slack_image(environ, FetchOf(i), PublishOf(i))

\* Two invocations for different URLs have both uploaded, after the
\* configuration was overwritten, and returned different URLs.
C10_Witness ==
    \E i, j \in Invocations :
        /\ i # j
        /\ pc[i] = "done" /\ pc[j] = "done"
        /\ Len(uploads[i]) = 1 /\ Len(uploads[j]) = 1
        /\ cloudinary_config.writer = j
        /\ slack_url[i] # slack_url[j]
        /\ IsPublicUrl(result[i]) /\ IsPublicUrl(result[j])
        /\ result[i] # result[j]

====
